---- MODULE Spec2Model ----
(***************************************************************************)
(* Model of pyshrun (psh): the command tree of types.py, the resolver      *)
(* ExecCtx.get_command, RunConfig.override and the recursive interpreter   *)
(* RunConfig.execute_command, run as a stack machine, with the process     *)
(* environment, the process working directory and the exit status.         *)
(***************************************************************************)
EXTENDS Integers, Sequences, FiniteSets, TLC

VARIABLES
    argv,           \* sys.argv[1:]
    environ,        \* the process environment (name -> value)
    proc_cwd,       \* the process's actual working directory
    system_config,  \* Optional registry loaded from the per-user run.yml
    local_config,   \* Optional registry loaded from ./run.yml
    config,         \* RunConfig.reg used by execute
    ctx,            \* ExecCtx: args, throw, cwd
    stack,          \* the active calls of execute_command, innermost last
    mode,           \* "run", or the exception in flight: "raise" / "exit"
    phase,          \* position of main: "main", "execute", "run", "done"
    exit_status,    \* exit status of the process once phase = "done"
    printed,        \* the last error message printed, the name it gives and the
                    \* number of commands run before it
    log,            \* the commands handed to sh.cmd, in order
    scope_exit,     \* the most recent return from a ListCommands / CommandObj call
    calls,          \* the calls of execute_command made so far, each by its place
    file_path,      \* ConfigParser.file_path
    document,       \* the value ConfigParser._parse_command is given
    parsed          \* what it returned, None before the call

\* the state of a parse
parse_vars == <<file_path, document, parsed>>

vars == <<argv, environ, proc_cwd, system_config, local_config, config, ctx,
          stack, mode, phase, exit_status, printed, log, scope_exit, calls,
          file_path, document, parsed>>

-----------------------------------------------------------------------------
(* Bounds of the model *)

MaxArgs == 3
MaxItems == 2
MaxStatus == 1

-----------------------------------------------------------------------------
(* Optional values: None is the empty tuple, a present value a 1-tuple *)

None == <<>>
Some(v) == <<v>>
Val(o) == o[1]

Last(s) == s[Len(s)]
Front(s) == SubSeq(s, 1, Len(s) - 1)

RECURSIVE SetToSeq(_)
SetToSeq(S) == IF S = {} THEN <<>>
               ELSE LET x == CHOOSE x \in S : TRUE IN <<x>> \o SetToSeq(S \ {x})

EmptyMap == [k \in {} |-> ""]

-----------------------------------------------------------------------------
(* The command tree (types.py) *)

Command == [kind |-> "Command", desc |-> ""]

ThrowConfig(throw) == [kind |-> "ThrowConfig", desc |-> "", throw |-> throw]

DescConfig(desc) == [kind |-> "DescConfig", desc |-> desc]

CwdConfig(cwd) == [kind |-> "CwdConfig", desc |-> "", cwd |-> cwd]

SimpleCommand(string) == [kind |-> "SimpleCommand", desc |-> "", string |-> string]

IsDescConfig(cmd) == cmd.kind = "DescConfig"

RemoveAt(s, i) == SubSeq(s, 1, i - 1) \o SubSeq(s, i + 1, Len(s))

\* a __post_init__ that looks at the first item only
ListCommands_LeadingOnly(commands) ==
    IF commands # <<>> /\ IsDescConfig(commands[1])
    THEN [kind |-> "ListCommands", desc |-> commands[1].desc,
          commands |-> Tail(commands)]
    ELSE [kind |-> "ListCommands", desc |-> "", commands |-> commands]

\* ListCommands.__post_init__: the first DescConfig found in commands gives
\* the description and is removed from the list
ListCommands(commands) ==
    LET found == {i \in 1..Len(commands) : IsDescConfig(commands[i])}
    IN IF found = {}
       THEN [kind |-> "ListCommands", desc |-> "", commands |-> commands]
       ELSE LET i == CHOOSE i \in found : \A j \in found : i <= j
            IN [kind |-> "ListCommands", desc |-> commands[i].desc,
                commands |-> RemoveAt(commands, i)]

CommandRegistry(desc, commands) ==
    [kind |-> "CommandRegistry", desc |-> desc, commands |-> commands]

CommandObj(cmd, cwd, ensure_env, set_env, throw) ==
    [kind |-> "CommandObj", desc |-> "", cmd |-> cmd, cwd |-> cwd,
     ensure_env |-> ensure_env, set_env |-> set_env, throw |-> throw]

IsConfigCmd(cmd) == cmd.kind \in {"ThrowConfig", "DescConfig", "CwdConfig"}
IsCommandRegistry(cmd) == cmd.kind = "CommandRegistry"
IsCommand(cmd) == ~IsCommandRegistry(cmd)


-----------------------------------------------------------------------------
(* The configurations, arguments and environments the runs start from *)

Lit1 == SimpleCommand("l1")
Lit2 == SimpleCommand("l2")
ThrowOn == ThrowConfig(TRUE)
ThrowOff == ThrowConfig(FALSE)

Tuples(S, n) == UNION {[1..m -> S] : m \in 1..n}
Lists(S) == {ListCommands(s) : s \in Tuples(S, MaxItems)}

\* set_env / ensure_env pairs of a command object
EnvOpts ==
    { <<EmptyMap, {}>>,
      <<[k \in {"K"} |-> "v1"], {}>>,
      <<EmptyMap, {"K"}>>,
      <<[k \in {"K"} |-> "v1"], {"K"}>>,
      <<[k \in {"K"} |-> "v1"], {"M"}>>,
      <<[k \in {"K", "M"} |-> "v2"], {"M"}>> }

Opts == [throw : {None, Some(TRUE), Some(FALSE)},
         cwd : {None, Some("/d1")},
         env : EnvOpts]

OptsFew ==
    { [throw |-> None, cwd |-> None, env |-> <<EmptyMap, {}>>],
      [throw |-> Some(TRUE), cwd |-> Some("/d1"), env |-> <<[k \in {"K"} |-> "v1"], {}>>],
      [throw |-> Some(FALSE), cwd |-> Some("/d2"), env |-> <<[k \in {"K"} |-> "v2"], {"K"}>>],
      [throw |-> None, cwd |-> None, env |-> <<[k \in {"M"} |-> "v1"], {"K"}>>] }

Obj(o, cmd) == CommandObj(cmd, o.cwd, o.env[2], o.env[1], o.throw)

\* a registry nested in a command object
InnerReg ==
    CommandRegistry("inner", [n \in {"a", "b"} |->
        IF n = "a" THEN Lit1
        ELSE CommandRegistry("", [m \in {"a"} |-> Lit2])])

Level1 ==
    Lists({Lit1, Lit2, ThrowOn, ThrowOff, DescConfig("doc")})
      \cup {Obj(o, Lit1) : o \in Opts}

MidItems ==
    {Lit1, ThrowOn, ThrowOff, ListCommands(<<ThrowOn, Lit2>>),
     ListCommands(<<ThrowOff, Lit2>>)}
      \cup {Obj(o, Lit2) : o \in OptsFew \ {[throw |-> None, cwd |-> None,
                                              env |-> <<EmptyMap, {}>>]}}

Level2 == Lists(MidItems) \cup {Obj(o, l) : o \in OptsFew, l \in Lists(MidItems)}

\* lists in which a second ThrowConfig follows a first, alone and as the
\* command of a command object
ThrowLists ==
    LET onOff == ListCommands(<<Lit1, ThrowOn, Lit1, ThrowOff, Lit2>>)
        offOn == ListCommands(<<Lit1, ThrowOff, Lit1, ThrowOn, Lit2>>)
    IN {onOff, offOn,
        Obj([throw |-> Some(TRUE), cwd |-> None, env |-> <<EmptyMap, {}>>], onOff),
        ListCommands(<<ThrowOn, offOn, Lit2>>)}

\* commands without a nested registry: run as "a"
Family == Level1 \cup Level2 \cup ThrowLists

\* commands with nested registries: run with every argument list
RegFamily ==
    {Lit1} \cup {Obj(o, InnerReg) : o \in OptsFew}
      \cup Lists({Lit1} \cup {Obj(o, InnerReg) : o \in
               {[throw |-> None, cwd |-> None, env |-> <<EmptyMap, {}>>],
                [throw |-> Some(TRUE), cwd |-> Some("/d1"),
                 env |-> <<[k \in {"K"} |-> "v1"], {}>>]}})

\* the project-level registry with command n under "a"
Root(n) ==
    CommandRegistry("", [k \in {"a", "b"} |->
        IF k = "a" THEN n
        ELSE CommandRegistry("", [m \in {"a", "b"} |->
                IF m = "a" THEN Lit1
                ELSE Obj([throw |-> Some(TRUE), cwd |-> None, env |-> <<EmptyMap, {}>>],
                         InnerReg)])])

\* a system-level registry: "b" is a registry with other names, "c" is its own
SystemReg ==
    CommandRegistry("", [k \in {"b", "c"} |->
        IF k = "c" THEN Lit2
        ELSE CommandRegistry("", [m \in {"b", "c"} |-> Lit2])])

ArgNames == {"a", "b", "c", "x"}
ArgLists == {<<>>} \cup Tuples(ArgNames, MaxArgs)

Environs == {EmptyMap, [k \in {"K"} |-> "v0"]}

-----------------------------------------------------------------------------
(* The sh collaborator: subprocess, working directory and environment *)

\* sh.cmd(string, throw=...) raises on a non-zero exit status when throw is set
sh_cmd_raises(status, throw) == throw /\ status # 0

sh_cd(path) == path

sh_set_env(env, key, value) ==
    [k \in DOMAIN env \cup {key} |-> IF k = key THEN value ELSE env[k]]

sh_unset_env(env, key) == [k \in DOMAIN env \ {key} |-> env[k]]

sh_has_env(env, name) == name \in DOMAIN env

-----------------------------------------------------------------------------
(* ExecCtx.get_command: walk the registries, popping one name per level *)

Resolved(cmd, args) == [ok |-> TRUE, cmd |-> cmd, args |-> args, err |-> <<"", "">>]
Failed(text, name, args) ==
    [ok |-> FALSE, cmd |-> Command, args |-> args, err |-> <<text, name>>]

\* a resolver that returns the command without popping its name
RECURSIVE get_command_NoPop(_, _)
get_command_NoPop(args, reg) ==
    IF Len(args) = 0
    THEN Failed("Missing command(s)", "", args)
    ELSE LET cmd_name == Head(args)
             rest == Tail(args)
         IN IF cmd_name \notin DOMAIN reg.commands
            THEN Failed("Unknown command", cmd_name, rest)
            ELSE LET next_cmd == reg.commands[cmd_name]
                 IN IF IsCommandRegistry(next_cmd)
                    THEN get_command_NoPop(rest, next_cmd)
                    ELSE Resolved(next_cmd, args)

\* a resolver that takes an unknown name for the end of the arguments
RECURSIVE get_command_UnknownAsMissing(_, _)
get_command_UnknownAsMissing(args, reg) ==
    IF Len(args) = 0
    THEN Failed("Missing command(s)", "", args)
    ELSE LET cmd_name == Head(args)
             rest == Tail(args)
         IN IF cmd_name \notin DOMAIN reg.commands
            THEN Failed("Missing command(s)", "", rest)
            ELSE LET next_cmd == reg.commands[cmd_name]
                 IN IF IsCommandRegistry(next_cmd)
                    THEN get_command_UnknownAsMissing(rest, next_cmd)
                    ELSE Resolved(next_cmd, rest)

RECURSIVE get_command(_, _)
get_command(args, reg) ==
    IF Len(args) = 0
    THEN Failed("Missing command(s)", "", args)
    ELSE LET cmd_name == Head(args)
             rest == Tail(args)
         IN IF cmd_name \notin DOMAIN reg.commands
            THEN Failed("Unknown command", cmd_name, rest)
            ELSE LET next_cmd == reg.commands[cmd_name]
                 IN IF IsCommandRegistry(next_cmd)
                    THEN get_command(rest, next_cmd)
                    ELSE Resolved(next_cmd, rest)

-----------------------------------------------------------------------------
(* RunConfig.override: dict.update of the root registries *)

RECURSIVE update(_, _, _)
update(commands, other, keys) ==
    IF keys = <<>> THEN commands
    ELSE update([k \in DOMAIN commands \cup {Head(keys)} |->
                    IF k = Head(keys) THEN other[k] ELSE commands[k]],
                other, Tail(keys))

\* an override in which the names of the base win
override_BaseWins(self, other) ==
    [self EXCEPT !.commands = update(other.commands, self.commands,
                                     SetToSeq(DOMAIN self.commands))]

override(self, other) ==
    [self EXCEPT !.commands = update(self.commands, other.commands,
                                     SetToSeq(DOMAIN other.commands))]

\* _load_config: project-level over system-level; None when neither exists
_load_config(system, local) ==
    IF system # None
    THEN IF local # None THEN Some(override(Val(system), Val(local))) ELSE system
    ELSE local

-----------------------------------------------------------------------------
(* Pieces of RunConfig.execute_command *)

\* a ConfigCmd branch in which a ThrowConfig leaves ctx.throw alone
ConfigEffect_NoThrow(cmd, c) ==
    CASE cmd.kind = "ThrowConfig" -> c
      [] cmd.kind = "DescConfig" -> c
      [] cmd.kind = "CwdConfig" -> [c EXCEPT !.cwd = Some(cmd.cwd)]

\* ctx after the ConfigCmd branch (lines 129-135)
ConfigEffect(cmd, c) ==
    CASE cmd.kind = "ThrowConfig" -> [c EXCEPT !.throw = cmd.throw]
      [] cmd.kind = "DescConfig" -> c
      [] cmd.kind = "CwdConfig" -> [c EXCEPT !.cwd = Some(cmd.cwd)]

\* a SimpleCommand branch that never asks sh.cmd to raise
CmdThrow_Never(c) == FALSE

\* the throw flag handed to sh.cmd by the SimpleCommand branch
CmdThrow(c) == c.throw

\* finally blocks that restore ctx.throw and forget ctx.cwd
Restore_KeepCwd(c, throw, cwd) == [c EXCEPT !.throw = throw]

\* the finally blocks: ctx.throw = throw; ctx.cwd = cwd
Restore(c, throw, cwd) == [c EXCEPT !.throw = throw, !.cwd = cwd]

\* for key, value in cmd.set_env.items(): sh.set_env(key, value)
RECURSIVE SetEnvAll(_, _, _)
SetEnvAll(env, set_env, keys) ==
    IF keys = <<>> THEN env
    ELSE SetEnvAll(sh_set_env(env, Head(keys), set_env[Head(keys)]), set_env, Tail(keys))

\* for key in cmd.set_env.keys(): sh.unset_env(key)
RECURSIVE UnsetEnvAll(_, _)
UnsetEnvAll(env, keys) ==
    IF keys = <<>> THEN env
    ELSE UnsetEnvAll(sh_unset_env(env, Head(keys)), Tail(keys))

\* an ensure_env check made on the environment as it was before set_env
MissingEnv_BeforeSetEnv(cmd, before, after) ==
    {n \in cmd.ensure_env : ~sh_has_env(before, n)}

\* the names of ensure_env that sh.has_env does not find, in the environment
\* as set_env left it
MissingEnv(cmd, before, after) == {n \in cmd.ensure_env : ~sh_has_env(after, n)}

\* a command object that ignores its throw key
ObjThrow_Ambient(cmd, c) == c.throw

\* ctx.throw = cmd.throw if cmd.throw is not None else ctx.throw
ObjThrow(cmd, c) == IF cmd.throw # None THEN Val(cmd.throw) ELSE c.throw

\* a command object that leaves ctx.cwd alone
ObjCwd_Ambient(cmd, c) == c.cwd

\* ctx.cwd = cmd.cwd if cmd.cwd is not None else ctx.cwd
ObjCwd(cmd, c) == IF cmd.cwd # None THEN cmd.cwd ELSE c.cwd

\* if ctx.cwd is not None: sh.cd(ctx.cwd)
ObjChdir(cwd, pcwd) == IF cwd # None THEN sh_cd(Val(cwd)) ELSE pcwd

-----------------------------------------------------------------------------
(* The calls of execute_command *)

Snapshot(c, env, pcwd) ==
    [args |-> c.args, throw |-> c.throw, cwd |-> c.cwd,
     environ |-> env, proc_cwd |-> pcwd, ran |-> Len(log)]

\* a new call: the locals throw, cwd are unassigned; entry is the state of
\* ctx and of the process at the call
Frame(cmd, entry) == [cmd |-> cmd, pc |-> "call", throw |-> FALSE, cwd |-> None,
                      i |-> 0, entry |-> entry]

Message(text, name) == [text |-> text, name |-> name, after |-> Len(log)]

Top == Last(stack)
Below == Front(stack)
\* the kind of the command whose call made the innermost call
Caller == IF Len(stack) > 1 THEN stack[Len(stack) - 1].cmd.kind ELSE "execute"
Running == phase = "run" /\ mode = "run" /\ stack # <<>>
SetTop(frame) == [stack EXCEPT ![Len(stack)] = frame]

\* the place in the command tree of the call on top of st: the items the
\* lists around it are at (0 for a command object)
Place(st) == [p \in 1..(Len(st) - 1) |-> st[p].i]

\* a loop that stays on the same item
NextItem_Stay(i) == i

\* for sub_cmd in cmd.commands: the loop moves to the next item
NextItem(i) == i + 1

\* what a ListCommands / CommandObj call left behind when it was left
ScopeExit(frame, how, c, env, pcwd) ==
    Some([cmd |-> frame.cmd, how |-> how, depth |-> Len(stack), i |-> frame.i,
          pc |-> frame.pc, entry |-> frame.entry, after |-> Snapshot(c, env, pcwd)])

\* ConfigCmd branch (lines 129-135)
ExecConfigCmd ==
    /\ Running /\ Top.pc = "call" /\ IsConfigCmd(Top.cmd)
    /\ ctx' = ConfigEffect(Top.cmd, ctx)
    /\ stack' = Below
    /\ UNCHANGED <<argv, environ, proc_cwd, system_config, local_config, config,
                   mode, phase, exit_status, printed, log, scope_exit>>
    /\ UNCHANGED parse_vars
    /\ UNCHANGED calls

\* SimpleCommand branch (lines 137-138): the subprocess runs in the process's
\* working directory and environment and ends with some exit status
ExecSimpleCommand ==
    /\ Running /\ Top.pc = "call" /\ Top.cmd.kind = "SimpleCommand"
    /\ \E status \in 0..MaxStatus :
         /\ log' = Append(log, [string |-> Top.cmd.string, status |-> status,
                                throw |-> CmdThrow(ctx), cwd |-> proc_cwd,
                                environ |-> environ, depth |-> Len(stack),
                                entry |-> Top.entry, of |-> Caller])
         /\ mode' = IF sh_cmd_raises(status, CmdThrow(ctx)) THEN "raise" ELSE "run"
    /\ stack' = Below
    /\ UNCHANGED <<argv, environ, proc_cwd, system_config, local_config, config,
                   ctx, phase, exit_status, printed, scope_exit>>
    /\ UNCHANGED parse_vars
    /\ UNCHANGED calls

\* ListCommands branch, lines 141-142: throw = ctx.throw; cwd = ctx.cwd
ListEnter ==
    /\ Running /\ Top.pc = "call" /\ Top.cmd.kind = "ListCommands"
    /\ stack' = SetTop([Top EXCEPT !.pc = "loop", !.throw = ctx.throw,
                                   !.cwd = ctx.cwd, !.i = 1])
    /\ UNCHANGED <<argv, environ, proc_cwd, system_config, local_config, config,
                   ctx, mode, phase, exit_status, printed, log, scope_exit>>
    /\ UNCHANGED parse_vars
    /\ UNCHANGED calls

\* ListCommands branch, lines 144-145: execute the next sub command
ListNext ==
    /\ Running /\ Top.pc = "loop" /\ Top.cmd.kind = "ListCommands"
    /\ Top.i <= Len(Top.cmd.commands)
    /\ stack' = Append(SetTop([Top EXCEPT !.i = NextItem(Top.i)]),
                       Frame(Top.cmd.commands[Top.i], Snapshot(ctx, environ, proc_cwd)))
    /\ UNCHANGED <<argv, environ, proc_cwd, system_config, local_config, config,
                   ctx, mode, phase, exit_status, printed, log, scope_exit>>
    /\ UNCHANGED parse_vars
    /\ calls' = Append(calls, Place(stack'))

\* ListCommands branch, lines 146-148: the finally block, reached when the
\* loop is over or when an exception passes through
ListFinally ==
    /\ phase = "run" /\ stack # <<>>
    /\ Top.pc = "loop" /\ Top.cmd.kind = "ListCommands"
    /\ mode # "run" \/ Top.i > Len(Top.cmd.commands)
    /\ ctx' = Restore(ctx, Top.throw, Top.cwd)
    /\ stack' = Below
    /\ scope_exit' = ScopeExit(Top, mode, ctx', environ, proc_cwd)
    /\ UNCHANGED <<argv, environ, proc_cwd, system_config, local_config, config,
                   mode, phase, exit_status, printed, log>>
    /\ UNCHANGED parse_vars
    /\ UNCHANGED calls

\* CommandObj branch, lines 151-157 when a name of ensure_env is missing:
\* set_env is applied, the message is printed and exit(1) leaves the call
ObjMissingEnv ==
    /\ Running /\ Top.pc = "call" /\ Top.cmd.kind = "CommandObj"
    /\ LET env == SetEnvAll(environ, Top.cmd.set_env, SetToSeq(DOMAIN Top.cmd.set_env))
       IN /\ MissingEnv(Top.cmd, environ, env) # {}
          /\ environ' = env
          /\ \E name \in MissingEnv(Top.cmd, environ, env) :
                printed' = Message("Missing environment variable", name)
          /\ mode' = "exit"
          /\ stack' = Below
          /\ scope_exit' = ScopeExit(Top, "exit", ctx, env, proc_cwd)
    /\ UNCHANGED <<argv, proc_cwd, system_config, local_config, config,
                   ctx, phase, exit_status, log>>
    /\ UNCHANGED parse_vars
    /\ UNCHANGED calls

\* CommandObj branch, lines 151-170: set_env, the snapshot, the overrides,
\* sh.cd, and the call of the inner command (resolved from ctx.args when
\* cmd.cmd is a registry; a failed resolution prints and raises SystemExit
\* inside the try)
ObjEnter ==
    /\ Running /\ Top.pc = "call" /\ Top.cmd.kind = "CommandObj"
    /\ LET cmd == Top.cmd
           env == SetEnvAll(environ, cmd.set_env, SetToSeq(DOMAIN cmd.set_env))
           c == [ctx EXCEPT !.throw = ObjThrow(cmd, ctx), !.cwd = ObjCwd(cmd, ctx)]
           pcwd == ObjChdir(c.cwd, proc_cwd)
           frame == [Top EXCEPT !.pc = "try", !.throw = ctx.throw, !.cwd = ctx.cwd]
       IN /\ MissingEnv(cmd, environ, env) = {}
          /\ environ' = env
          /\ proc_cwd' = pcwd
          /\ IF IsCommand(cmd.cmd)
             THEN /\ ctx' = c
                  /\ stack' = Append(SetTop(frame), Frame(cmd.cmd, Snapshot(c, env, pcwd)))
                  /\ UNCHANGED <<mode, printed>>
             ELSE LET r == get_command(c.args, cmd.cmd)
                      c2 == [c EXCEPT !.args = r.args]
                  IN /\ ctx' = c2
                     /\ IF r.ok
                        THEN /\ stack' = Append(SetTop(frame),
                                                Frame(r.cmd, Snapshot(c2, env, pcwd)))
                             /\ UNCHANGED <<mode, printed>>
                        ELSE /\ stack' = SetTop(frame)
                             /\ mode' = "exit"
                             /\ printed' = Message(r.err[1], r.err[2])
    /\ UNCHANGED <<argv, system_config, local_config, config,
                   phase, exit_status, log, scope_exit>>
    /\ UNCHANGED parse_vars
    /\ calls' = IF Len(stack') > Len(stack) THEN Append(calls, Place(stack')) ELSE calls

\* CommandObj branch, lines 172-176: the finally block, and after it, when no
\* exception is passing through, the unset_env loop
ObjFinally ==
    /\ phase = "run" /\ stack # <<>>
    /\ Top.pc = "try" /\ Top.cmd.kind = "CommandObj"
    /\ ctx' = Restore(ctx, Top.throw, Top.cwd)
    /\ environ' = IF mode = "run"
                  THEN UnsetEnvAll(environ, SetToSeq(DOMAIN Top.cmd.set_env))
                  ELSE environ
    /\ stack' = Below
    /\ scope_exit' = ScopeExit(Top, mode, ctx', environ', proc_cwd)
    /\ UNCHANGED <<argv, proc_cwd, system_config, local_config, config,
                   mode, phase, exit_status, printed, log>>
    /\ UNCHANGED parse_vars
    /\ UNCHANGED calls

-----------------------------------------------------------------------------
(* main and RunConfig.execute *)

\* main, lines 54-58: no argument: print_usage (which loads the configuration)
MainNoArgs ==
    /\ phase = "main" /\ Len(argv) = 0
    /\ phase' = "done"
    /\ exit_status' = IF _load_config(system_config, local_config) = None THEN 1 ELSE 0
    /\ printed' = IF _load_config(system_config, local_config) = None
                  THEN Message("No configuration file found", "")
                  ELSE Message("No command provided.", "")
    /\ UNCHANGED <<argv, environ, proc_cwd, system_config, local_config, config,
                   ctx, stack, mode, log, scope_exit>>
    /\ UNCHANGED parse_vars
    /\ UNCHANGED calls

\* main, line 83 with _load_config, lines 142-157
MainLoadConfig ==
    /\ phase = "main" /\ Len(argv) > 0
    /\ LET loaded == _load_config(system_config, local_config)
       IN IF loaded = None
          THEN /\ phase' = "done"
               /\ exit_status' = 1
               /\ printed' = Message("No configuration file found", "")
               /\ UNCHANGED config
          ELSE /\ phase' = "execute"
               /\ config' = Val(loaded)
               /\ UNCHANGED <<exit_status, printed>>
    /\ UNCHANGED <<argv, environ, proc_cwd, system_config, local_config,
                   ctx, stack, mode, log, scope_exit>>
    /\ UNCHANGED parse_vars
    /\ UNCHANGED calls

\* RunConfig.execute, lines 116-118: the context, the resolution of the target
\* and the call of execute_command
Execute ==
    /\ phase = "execute"
    /\ phase' = "run"
    /\ LET c == [args |-> argv, throw |-> FALSE, cwd |-> Some(proc_cwd)]
           r == get_command(c.args, config)
           c2 == [c EXCEPT !.args = r.args]
       IN /\ ctx' = c2
          /\ IF r.ok
             THEN /\ stack' = <<Frame(r.cmd, Snapshot(c2, environ, proc_cwd))>>
                  /\ UNCHANGED <<mode, printed>>
             ELSE /\ mode' = "exit"
                  /\ printed' = Message(r.err[1], r.err[2])
                  /\ UNCHANGED stack
    /\ UNCHANGED <<argv, environ, proc_cwd, system_config, local_config, config,
                   exit_status, log, scope_exit>>
    /\ UNCHANGED parse_vars
    /\ calls' = IF Len(stack') > Len(stack) THEN Append(calls, Place(stack')) ELSE calls

\* execute_command returned to execute, execute to main: the process ends
ExecuteReturn ==
    /\ phase = "run" /\ stack = <<>> /\ mode = "run"
    /\ phase' = "done"
    /\ exit_status' = 0
    /\ UNCHANGED <<argv, environ, proc_cwd, system_config, local_config, config,
                   ctx, stack, mode, printed, log, scope_exit>>
    /\ UNCHANGED parse_vars
    /\ UNCHANGED calls

\* RunConfig.execute, lines 119-120: except Exception: pass; main returns
ExecuteExcept ==
    /\ phase = "run" /\ stack = <<>> /\ mode = "raise"
    /\ phase' = "done"
    /\ exit_status' = 0
    /\ UNCHANGED <<argv, environ, proc_cwd, system_config, local_config, config,
                   ctx, stack, mode, printed, log, scope_exit>>
    /\ UNCHANGED parse_vars
    /\ UNCHANGED calls

\* exit(1) raises SystemExit, which is no Exception: it passes the except
\* clause of execute and ends the process with status 1
SystemExit ==
    /\ phase = "run" /\ stack = <<>> /\ mode = "exit"
    /\ phase' = "done"
    /\ exit_status' = 1
    /\ UNCHANGED <<argv, environ, proc_cwd, system_config, local_config, config,
                   ctx, stack, mode, printed, log, scope_exit>>
    /\ UNCHANGED parse_vars
    /\ UNCHANGED calls

Next ==
    \/ MainNoArgs \/ MainLoadConfig \/ Execute
    \/ ExecConfigCmd \/ ExecSimpleCommand
    \/ ListEnter \/ ListNext \/ ListFinally
    \/ ObjMissingEnv \/ ObjEnter \/ ObjFinally
    \/ ExecuteReturn \/ ExecuteExcept \/ SystemExit

\* the process at its start, with a command of the given family under "a"
\* of the project-level registry or none
Start(family) ==
    /\ proc_cwd = "/d0"
    /\ \/ /\ \E n \in family : local_config = Some(Root(n))
          /\ system_config = None
          /\ argv = <<"a">>
          /\ environ \in Environs
       \/ /\ local_config \in {None} \cup {Some(Root(n)) : n \in RegFamily}
          /\ system_config \in {None, Some(SystemReg)}
          /\ argv \in ArgLists
          /\ environ = EmptyMap
    /\ config = CommandRegistry("", EmptyMap)
    /\ ctx = [args |-> <<>>, throw |-> FALSE, cwd |-> None]
    /\ stack = <<>>
    /\ mode = "run"
    /\ phase = "main"
    /\ exit_status = -1
    /\ printed = [text |-> "", name |-> "", after |-> 0]
    /\ log = <<>>
    /\ scope_exit = None
    /\ calls = <<>>
    /\ file_path = <<>>
    /\ document = [t |-> "null"]
    /\ parsed = None

Init == Start(Family)

Spec == Init /\ [][Next]_vars

-----------------------------------------------------------------------------
(* Properties *)

IsScope(e) == e.cmd.kind \in {"ListCommands", "CommandObj"}
IsObjExit(e) == e.cmd.kind = "CommandObj"
IsListExit(e) == e.cmd.kind = "ListCommands"

\* C1: whenever the call of execute_command on a ListCommands or a CommandObj
\* is left, by return or by an exception passing through, at any depth,
\* ctx.throw and ctx.cwd are what they were when the call began.
C1_ScopeRestoresCtx ==
    scope_exit # None =>
        LET e == Val(scope_exit)
        IN IsScope(e) => /\ e.after.throw = e.entry.throw
                         /\ e.after.cwd = e.entry.cwd

\* a nested CommandObj that overrode throw and cwd is left by a failure
C1_Witness ==
    /\ scope_exit # None
    /\ LET e == Val(scope_exit)
       IN /\ IsObjExit(e) /\ e.how = "raise" /\ e.depth >= 2
          /\ e.cmd.throw = Some(TRUE) /\ e.entry.throw = FALSE
          /\ e.cmd.cwd # None /\ e.cmd.cwd # e.entry.cwd

\* C2, for a call that returns: after the call on a CommandObj the process
\* environment equals the environment at the call, name by name and value by
\* value, also for a name of set_env that had a value before.
C2_EnvRestored ==
    scope_exit # None =>
        LET e == Val(scope_exit)
        IN IsObjExit(e) /\ e.how = "run" => e.after.environ = e.entry.environ

\* C3: when the call on a CommandObj is left by a failure, no key of its
\* set_env is left in the environment.
C3_EnvUnsetOnFailure ==
    scope_exit # None =>
        LET e == Val(scope_exit)
        IN IsObjExit(e) /\ e.how # "run" =>
              \A k \in DOMAIN e.cmd.set_env : k \notin DOMAIN e.after.environ

\* C4: when the call on a CommandObj is left (return or failure) the process
\* working directory is the one the process had when the call began.
C4_ProcCwdRestored ==
    scope_exit # None =>
        LET e == Val(scope_exit)
        IN IsObjExit(e) => e.after.proc_cwd = e.entry.proc_cwd

FailsWithThrow(l) == l.status # 0 /\ l.entry.throw

\* C5: a command run with a non-zero exit status while ctx.throw is true is
\* the last command run: the exception is in flight, no call is begun after
\* it, and a ListCommands it passes through is left with items not run; a
\* non-zero exit status while ctx.throw is false raises nothing, and a
\* ListCommands that returns has begun the call of every one of its items.
C5_SequenceStopsOnlyOnThrow ==
    /\ \A k \in 1..Len(log) :
          FailsWithThrow(log[k]) =>
             /\ k = Len(log)
             /\ mode = "raise"
             /\ \A p \in 1..Len(stack) : stack[p].pc # "call"
    /\ mode = "raise" => log # <<>> /\ FailsWithThrow(Last(log))
    /\ scope_exit # None =>
          LET e == Val(scope_exit)
          IN IsListExit(e) =>
                /\ e.how = "run" => e.i = Len(e.cmd.commands) + 1
                /\ e.how = "raise" => FailsWithThrow(Last(log))

\* a ListCommands is left by the failure of one of its own items, a
\* SimpleCommand, with a later item not run
C5_Witness ==
    /\ scope_exit # None /\ log # <<>>
    /\ LET e == Val(scope_exit)
       IN /\ IsListExit(e) /\ e.how = "raise"
          /\ e.i <= Len(e.cmd.commands)
          /\ Last(log).of = "ListCommands" /\ Last(log).depth = e.depth + 1

\* a run in which a command of a ListCommands ended non-zero while ctx.throw
\* was false and the next item of the same list ran
C5_WitnessContinue ==
    \E k \in 1..Len(log) - 1 :
        /\ log[k].status # 0 /\ ~log[k].entry.throw
        /\ log[k].of = "ListCommands" /\ log[k + 1].of = "ListCommands"
        /\ log[k + 1].depth = log[k].depth

\* the entry a path of names leads to, from a registry
RECURSIVE Walk(_, _)
Walk(reg, path) ==
    IF path = <<>> THEN reg ELSE Walk(reg, Front(path)).commands[Last(path)]

Prefix(s, n) == SubSeq(s, 1, n)

\* every name of the path is a child of the registry its predecessors lead to
RECURSIVE PathOk(_, _)
PathOk(reg, path) ==
    \/ path = <<>>
    \/ /\ PathOk(reg, Front(path))
       /\ IsCommandRegistry(Walk(reg, Front(path)))
       /\ Last(path) \in DOMAIN Walk(reg, Front(path)).commands

\* the state execute is in when get_command has returned the target
TargetResolved == phase = "run" /\ Len(stack) = 1 /\ stack[1].pc = "call"

\* C6: get_command pops names from the front of args only, one per registry
\* level walked, and returns the first entry that is no registry: with n the
\* number of names popped, the names left are the arguments after the first
\* n in their order, the first n lead through registries only, and the
\* command returned is the entry they lead to (for {b: {a: l1}} and
\* [b, a, t1, ..] it is l1, and [t1, ..] is left).
C6_ResolveConsumesPath ==
    TargetResolved =>
        LET n == Len(argv) - Len(ctx.args)
        IN /\ n >= 1
           /\ ctx.args = SubSeq(argv, n + 1, Len(argv))
           /\ PathOk(config, Prefix(argv, n))
           /\ \A j \in 0..(n - 1) : IsCommandRegistry(Walk(config, Prefix(argv, j)))
           /\ IsCommand(stack[1].cmd)
           /\ stack[1].cmd = Walk(config, Prefix(argv, n))

\* [b, a, x] is resolved through the registry b to its command a, x is left
C6_Witness ==
    /\ TargetResolved
    /\ argv = <<"b", "a", "x">> /\ ctx.args = <<"x">>
    /\ stack[1].cmd = Lit1

ResolutionErrors == {"Missing command(s)", "Unknown command"}

\* args runs out at a registry / the name at position j is no child
MissingAt(reg, args) == PathOk(reg, args) /\ IsCommandRegistry(Walk(reg, args))
UnknownAt(reg, args, j) ==
    /\ PathOk(reg, Prefix(args, j - 1))
    /\ IsCommandRegistry(Walk(reg, Prefix(args, j - 1)))
    /\ args[j] \notin DOMAIN Walk(reg, Prefix(args, j - 1)).commands

\* what a resolution of args from reg must have done in the current state
ResolutionFails(reg, args) ==
    /\ MissingAt(reg, args) =>
          mode = "exit" /\ printed.text = "Missing command(s)"
    /\ \A j \in 1..Len(args) :
          UnknownAt(reg, args, j) =>
             /\ mode = "exit"
             /\ printed.text = "Unknown command" /\ printed.name = args[j]

\* the resolutions made so far on the way to the innermost call: the one of
\* execute, and the ones of the command objects with a registry
ResolutionsFail ==
    /\ phase = "run" => ResolutionFails(config, argv)
    /\ \A p \in 1..Len(stack) :
          (/\ stack[p].cmd.kind = "CommandObj" /\ stack[p].pc = "try"
           /\ IsCommandRegistry(stack[p].cmd.cmd))
             => ResolutionFails(stack[p].cmd.cmd, stack[p].entry.args)

\* C7 as claimed: a resolution fails with the missing-command error when
\* args is empty at a registry level and with the unknown-command error
\* naming the popped name when it is no child; then no command at all has
\* been run and the process ends with a non-zero status.
C7_ResolutionFailureRunsNothing ==
    /\ ResolutionsFail
    /\ printed.text \in ResolutionErrors =>
          /\ log = <<>>
          /\ phase = "done" => exit_status # 0

\* C7 as amended: ... then no command is run after the failure, none at all
\* when the failing resolution is the one of execute, and the process ends
\* with a non-zero status.
C7_ResolutionFailureStopsRun ==
    /\ ResolutionsFail
    /\ printed.text \in ResolutionErrors =>
          /\ mode = "exit"
          /\ Len(log) = printed.after
          /\ phase = "done" => exit_status # 0
    /\ phase = "run" /\ (MissingAt(config, argv)
                          \/ \E j \in 1..Len(argv) : UnknownAt(config, argv, j))
          => log = <<>>

\* the process has ended after an unknown name met in the registry of a
\* command object, reached after the names of the target were popped
C7_Witness ==
    /\ phase = "done" /\ exit_status = 1
    /\ printed.text = "Unknown command" /\ printed.name = "x"
    /\ argv = <<"a", "b", "x">>
    /\ ~UnknownAt(config, argv, 3)

\* C8: override is a shallow merge of the root registries: every name of the
\* overriding registry maps to its entry there, whole; a name of the base
\* only keeps the entry of the base; there are no other names.
C8_OverrideShallow ==
    (phase \in {"execute", "run"} /\ system_config # None /\ local_config # None) =>
        LET base == Val(system_config).commands
            over == Val(local_config).commands
        IN /\ DOMAIN config.commands = DOMAIN base \cup DOMAIN over
           /\ \A n \in DOMAIN over : config.commands[n] = over[n]
           /\ \A n \in DOMAIN base \ DOMAIN over : config.commands[n] = base[n]

\* both registries have "b", with different children: the merged "b" is the
\* project's, without the child "c" of the system's "b"; "c" is the system's
C8_Witness ==
    /\ phase = "run" /\ system_config # None /\ local_config # None
    /\ "b" \in DOMAIN Val(system_config).commands
    /\ "b" \in DOMAIN Val(local_config).commands
    /\ "c" \in DOMAIN Val(system_config).commands["b"].commands
    /\ "c" \notin DOMAIN config.commands["b"].commands
    /\ config.commands["c"] = Val(system_config).commands["c"]

\* C9: every run-time error (unknown or missing command, missing environment
\* variable, non-zero exit status while throw is set) ends the process with
\* a non-zero exit status.
C9_ErrorsExitNonZero ==
    phase = "done" /\ mode # "run" => exit_status # 0

\* the throw in force inside a command object called with ctx.throw = ambient
EffectiveThrow(cmd, ambient) == IF cmd.throw # None THEN Val(cmd.throw) ELSE ambient

\* C10: the inner command of a command object begins with ctx.throw equal to
\* the throw key when there is one, and to the ctx.throw of the call when
\* there is none; so an inner SimpleCommand that ends non-zero raises exactly
\* when that value is true.
C10_ThrowOverride ==
    /\ \A p \in 1..(Len(stack) - 1) :
          (/\ stack[p].cmd.kind = "CommandObj" /\ stack[p].pc = "try"
           /\ stack[p + 1].pc = "call")
             => ctx.throw = EffectiveThrow(stack[p].cmd, stack[p].entry.throw)
    /\ (/\ phase = "run" /\ stack # <<>>
        /\ Top.cmd.kind = "CommandObj" /\ Top.pc = "try"
        /\ Top.cmd.cmd.kind = "SimpleCommand")
          => /\ log # <<>> /\ Last(log).depth = Len(stack) + 1
             /\ (mode = "raise") <=>
                   (Last(log).status # 0 /\ EffectiveThrow(Top.cmd, Top.entry.throw))

\* under ctx.throw = TRUE, a command object with throw: false has run its
\* command, which ended non-zero, and nothing is raised
C10_Witness ==
    /\ phase = "run" /\ stack # <<>> /\ mode = "run"
    /\ Top.cmd.kind = "CommandObj" /\ Top.pc = "try"
    /\ Top.cmd.cmd.kind = "SimpleCommand"
    /\ Top.cmd.throw = Some(FALSE) /\ Top.entry.throw = TRUE
    /\ Last(log).status # 0

\* under ctx.throw = FALSE, a command object with throw: true has run its
\* command, which ended non-zero, and the exception is in flight
C10_WitnessRaise ==
    /\ phase = "run" /\ stack # <<>> /\ mode = "raise"
    /\ Top.cmd.kind = "CommandObj" /\ Top.pc = "try"
    /\ Top.cmd.cmd.kind = "SimpleCommand"
    /\ Top.cmd.throw = Some(TRUE) /\ Top.entry.throw = FALSE

------------------------------------------------------------------------------
(* ensure_env *)

\* the exit of a CommandObj call in its ensure_env loop
IsMissingEnvExit(e) == IsObjExit(e) /\ e.pc = "call"

\* C11: a command object checks ensure_env after it has applied set_env. A
\* call that went past the ensure_env loop had every required name either in
\* the environment it began with or among the keys of set_env; a call that was
\* left in that loop printed the missing-variable message for a required name
\* that is neither, raised SystemExit, and ran no command on the way; and the
\* run it ends has exit status 1.
C11_EnsureEnvAfterSetEnv ==
    /\ \A p \in 1..Len(stack) :
          (stack[p].cmd.kind = "CommandObj" /\ stack[p].pc = "try")
             => \A n \in stack[p].cmd.ensure_env :
                   \/ n \in DOMAIN stack[p].entry.environ
                   \/ n \in DOMAIN stack[p].cmd.set_env
    /\ (scope_exit # None /\ IsMissingEnvExit(Val(scope_exit)))
          => LET e == Val(scope_exit)
             IN /\ printed.text = "Missing environment variable"
                /\ printed.name \in e.cmd.ensure_env
                /\ printed.name \notin DOMAIN e.cmd.set_env
                /\ printed.name \notin DOMAIN e.entry.environ
                /\ Len(log) = e.entry.ran
                /\ mode = "exit"
                /\ phase = "done" => exit_status = 1

\* a command object with a set_env is left in its ensure_env loop
C11_Witness ==
    /\ scope_exit # None /\ IsMissingEnvExit(Val(scope_exit))
    /\ DOMAIN Val(scope_exit).cmd.set_env # {}
    /\ phase = "done"

\* a command object whose required name is only a key of its set_env runs its
\* command
C11_WitnessSetEnvKey ==
    /\ phase = "run" /\ stack # <<>>
    /\ Top.cmd.kind = "CommandObj" /\ Top.pc = "try"
    /\ \E n \in Top.cmd.ensure_env :
          n \in DOMAIN Top.cmd.set_env /\ n \notin DOMAIN Top.entry.environ
    /\ log # <<>> /\ Last(log).depth = Len(stack) + 1

------------------------------------------------------------------------------
(* the working directory and the environment a command runs in *)

\* C16: every SimpleCommand is run in ctx.cwd: when sh.cmd is called, the
\* working directory of the process is ctx.cwd, also for a command that
\* follows, in a list, a command object with a cwd of its own.
C16_RunsInCtxCwd ==
    \A k \in 1..Len(log) : Some(log[k].cwd) = log[k].entry.cwd

\* the command objects being executed that set key k, innermost last
Setters(k) ==
    {p \in 1..Len(stack) : /\ stack[p].cmd.kind = "CommandObj"
                           /\ stack[p].pc = "try"
                           /\ k \in DOMAIN stack[p].cmd.set_env}

Innermost(P) == CHOOSE p \in P : \A q \in P : q <= p

\* C17: a SimpleCommand about to run inside command objects sees, for every
\* key set by one of them, the value given by the innermost command object
\* that sets the key; so after a nested command object that set the same key
\* has been left, the outer value is seen again.
C17_SetEnvHoldsInSubtree ==
    (Running /\ Top.pc = "call" /\ Top.cmd.kind = "SimpleCommand")
       => \A k \in {"K", "M"} :
             Setters(k) # {}
                => /\ k \in DOMAIN environ
                   /\ environ[k] = stack[Innermost(Setters(k))].cmd.set_env[k]

------------------------------------------------------------------------------
(* ThrowConfig in a list *)

\* ctx.throw at the beginning of item j of a list entered with ctx.throw =
\* ambient: the value of the last ThrowConfig before item j, if there is one
ThrowAt(commands, j, ambient) ==
    LET T == {q \in 1..(j - 1) : commands[q].kind = "ThrowConfig"}
    IN IF T = {} THEN ambient
       ELSE commands[CHOOSE q \in T : \A r \in T : r <= q].throw

\* C18: a ThrowConfig in a list sets ctx.throw for the items after it, up to the
\* next ThrowConfig of the list, and for nothing else: every item of a list
\* begins with ctx.throw equal to the value of the last ThrowConfig before it
\* in the list, or to the ctx.throw the list began with when there is none;
\* between two items ctx.throw has that value too; and when the list is left
\* ctx.throw is what it was when the list began.
C18_ThrowConfigScopedToList ==
    /\ \A p \in 1..(Len(stack) - 1) :
          (stack[p].cmd.kind = "ListCommands" /\ stack[p].pc = "loop")
             => stack[p + 1].entry.throw =
                   ThrowAt(stack[p].cmd.commands, stack[p].i - 1, stack[p].entry.throw)
    /\ (Running /\ Top.cmd.kind = "ListCommands" /\ Top.pc = "loop")
          => ctx.throw = ThrowAt(Top.cmd.commands, Top.i, Top.entry.throw)
    /\ (scope_exit # None /\ IsListExit(Val(scope_exit)))
          => Val(scope_exit).after.throw = Val(scope_exit).entry.throw

\* a command begins after two ThrowConfig of its list, with the value of the
\* second, which is not the value the list began with
C18_Witness ==
    /\ phase = "run" /\ Len(stack) > 1
    /\ Top.cmd.kind = "SimpleCommand" /\ Top.pc = "call"
    /\ LET l == stack[Len(stack) - 1]
       IN /\ l.cmd.kind = "ListCommands"
          /\ \E q \in 1..(l.i - 2) : \E r \in (q + 1)..(l.i - 2) :
                /\ l.cmd.commands[q].kind = "ThrowConfig"
                /\ l.cmd.commands[r].kind = "ThrowConfig"
                /\ l.cmd.commands[q].throw # l.cmd.commands[r].throw
                /\ l.cmd.commands[r].throw # l.entry.throw
                /\ Top.entry.throw = l.cmd.commands[r].throw

\* a list whose ThrowConfig set ctx.throw has been left, and the command after
\* it in the enclosing list begins with the value from before
C18_WitnessAfter ==
    /\ phase = "run" /\ Len(stack) > 1
    /\ Top.cmd.kind = "SimpleCommand" /\ Top.pc = "call"
    /\ scope_exit # None /\ IsListExit(Val(scope_exit))
    /\ Val(scope_exit).depth = Len(stack)
    /\ \E q \in 1..Len(Val(scope_exit).cmd.commands) :
          /\ Val(scope_exit).cmd.commands[q].kind = "ThrowConfig"
          /\ Val(scope_exit).cmd.commands[q].throw # Top.entry.throw

------------------------------------------------------------------------------
(* a registry as the command of a command object *)

\* s is what is left of t after names were popped from its front
IsSuffix(s, t) == \E m \in 0..Len(t) : s = SubSeq(t, m + 1, Len(t))

\* a command object in progress whose command is a registry, with the command
\* resolved from it being executed
ResolvedInObj(p) ==
    /\ p < Len(stack)
    /\ stack[p].cmd.kind = "CommandObj" /\ stack[p].pc = "try"
    /\ IsCommandRegistry(stack[p].cmd.cmd)

\* C19: a command object whose command is a registry resolves the command to
\* execute from the arguments that the resolutions before it left in ctx.args,
\* popping from the front (no argument is popped twice in a run: the
\* arguments of every call are what is left of those of the calls around it,
\* and of argv), and executes the resolved command under its own overrides:
\* throw, cwd (also the working directory of the process) and set_env.
C19_RegistryInObjResolvesFromCtx ==
    /\ phase = "run" => IsSuffix(ctx.args, argv)
    /\ stack # <<>> => IsSuffix(ctx.args, Top.entry.args)
    /\ \A p \in 1..(Len(stack) - 1) :
          IsSuffix(stack[p + 1].entry.args, stack[p].entry.args)
    /\ \A p \in 1..Len(stack) :
          ResolvedInObj(p) =>
             LET obj == stack[p].cmd
                 a0 == stack[p].entry.args
                 child == stack[p + 1]
                 n == Len(a0) - Len(child.entry.args)
             IN /\ Len(a0) < Len(argv)
                /\ n >= 1
                /\ child.entry.args = SubSeq(a0, n + 1, Len(a0))
                /\ PathOk(obj.cmd, Prefix(a0, n))
                /\ IsCommand(child.cmd)
                /\ child.cmd = Walk(obj.cmd, Prefix(a0, n))
                /\ child.entry.throw = EffectiveThrow(obj, stack[p].entry.throw)
                /\ child.entry.cwd =
                      IF obj.cwd # None THEN obj.cwd ELSE stack[p].entry.cwd
                /\ Some(child.entry.proc_cwd) = child.entry.cwd
                /\ \A k \in DOMAIN obj.set_env :
                      /\ k \in DOMAIN child.entry.environ
                      /\ child.entry.environ[k] = obj.set_env[k]

\* [a, b, a]: the command object a, with throw, cwd and set_env, resolves
\* [b, a] in its registry and executes the command found
C19_Witness ==
    \E p \in 1..Len(stack) :
       /\ ResolvedInObj(p)
       /\ Len(stack[p].entry.args) - Len(stack[p + 1].entry.args) = 2
       /\ stack[p].cmd.throw = Some(TRUE) /\ stack[p].entry.throw = FALSE
       /\ stack[p].cmd.cwd # None
       /\ DOMAIN stack[p].cmd.set_env # {}

\* two command objects of a list resolve one after the other, the second from
\* what the first left
C19_WitnessTwice ==
    \E p \in 1..Len(stack) :
       /\ ResolvedInObj(p)
       /\ p > 1 /\ stack[p - 1].cmd.kind = "ListCommands" /\ stack[p - 1].i = 3
       /\ Len(stack[p].entry.args) < Len(stack[p - 1].entry.args)

------------------------------------------------------------------------------
(* termination *)

\* the commands termination is checked on: those of Level1 and ThrowLists,
\* and every command object of OptsFew around a list of one or two MidItems
FairFamily ==
    Level1 \cup ThrowLists
      \cup {Obj(o, ListCommands(<<m>>)) : o \in OptsFew, m \in MidItems}
      \cup {Obj(o, ListCommands(<<m, n>>)) : o \in OptsFew, m \in MidItems, n \in MidItems}

FairInit == Start(FairFamily)

\* the interpreter is one thread: a step that can be taken is taken, and a
\* call of sh.cmd returns
FairSpec == FairInit /\ [][Next]_vars /\ WF_vars(Next)

\* no place of the command tree was called twice
CalledOnce == \A i, j \in 1..Len(calls) : calls[i] = calls[j] => i = j

\* C20: when every call of sh.cmd returns, a run ends: get_command has popped
\* at most the arguments there are, execute_command is called at most once
\* for every place of the resolved command's tree, and main returns or the
\* process exits.
C20_RunTerminates ==
    /\ <>(phase = "done")
    /\ [](CalledOnce /\ Len(ctx.args) <= Len(argv))

\* a run that called execute_command five times and ran three commands has
\* ended
C20_Witness ==
    /\ phase = "done" /\ exit_status = 0
    /\ Len(calls) >= 5 /\ Len(log) >= 3

------------------------------------------------------------------------------
(* Configuration documents (the values yaml.safe_load returns) *)

\* the longest list in a document
MaxElems == 3

Str(v) == [t |-> "str", s |-> v]
Bool(v) == [t |-> "bool", b |-> v]
Null == [t |-> "null"]
List(v) == [t |-> "list", items |-> v]

\* a mapping is the sequence of its <<key, value>> pairs, in document order
Dict(v) == [t |-> "dict", pairs |-> v]

Keys(d) == {d.pairs[i][1] : i \in 1..Len(d.pairs)}
Get(d, key) == d.pairs[CHOOSE i \in 1..Len(d.pairs) : d.pairs[i][1] = key][2]

\* the Python value of a scalar, None for null; other values stay as they are
PyValue(d) ==
    CASE d.t = "str" -> d.s
      [] d.t = "bool" -> d.b
      [] d.t = "null" -> None
      [] OTHER -> d

\* cmd_data.pop(key, None)
PopOpt(d, key) ==
    IF key \in Keys(d) /\ Get(d, key).t # "null"
    THEN Some(PyValue(Get(d, key))) ELSE None

------------------------------------------------------------------------------
(* pathlib.Path and str, as far as resolve_cwd uses them *)

\* the pieces of the strings used as paths: " ", "/", "$THIS_DIR" and names
Pieces(s) ==
    CASE s = "" -> <<>>
      [] s = "$THIS_DIR" -> <<"$THIS_DIR">>
      [] s = "$THIS_DIR/sub" -> <<"$THIS_DIR", "/", "sub">>
      [] s = "$THIS_DIR/sub/bin" -> <<"$THIS_DIR", "/", "sub", "/", "bin">>
      [] s = " $THIS_DIR/sub" -> <<" ", "$THIS_DIR", "/", "sub">>
      [] s = "$THIS_DIR/sub " -> <<"$THIS_DIR", "/", "sub", " ">>
      [] s = "$THIS_DIR/../sub" -> <<"$THIS_DIR", "/", "..", "/", "sub">>
      [] s = "$THIS_DIRsub" -> <<"$THIS_DIR", "sub">>
      [] s = "/opt/sub" -> <<"/", "opt", "/", "sub">>
      [] s = "sub" -> <<"sub">>
      [] s = "../sub" -> <<"..", "/", "sub">>
      [] s = "/d0" -> <<"/", "d0">>
      [] s = "/etc/run.yml" -> <<"/", "etc", "/", "run.yml">>
      [] s = "run.yml" -> <<"run.yml">>

\* a path: absolute or not, and its components (each a sequence of pieces)
RECURSIVE Split(_)
Split(s) ==
    IF s = <<>> THEN <<>>
    ELSE IF s[1] = "/" THEN Split(Tail(s))
    ELSE LET stops == {i \in 1..Len(s) : s[i] = "/"}
             n == IF stops = {} THEN Len(s)
                  ELSE (CHOOSE i \in stops : \A j \in stops : i <= j) - 1
         IN <<SubSeq(s, 1, n)>> \o Split(SubSeq(s, n + 1, Len(s)))

\* Path(s), from the pieces of s
Path(s) == [abs |-> s # <<>> /\ s[1] = "/", parts |-> Split(s)]

\* p / q: an absolute q replaces p
PathJoin(p, q) ==
    IF q.abs THEN q ELSE [abs |-> p.abs, parts |-> p.parts \o q.parts]

\* p.parent
Parent(p) == [p EXCEPT !.parts = IF p.parts = <<>> THEN <<>> ELSE Front(p.parts)]

\* the components with every ".." applied to what precedes it
RECURSIVE Normalize(_)
Normalize(parts) ==
    IF parts = <<>> THEN <<>>
    ELSE LET front == Normalize(Front(parts))
         IN IF Last(parts) = <<"..">>
            THEN (IF front = <<>> THEN <<>> ELSE Front(front))
            ELSE Append(front, Last(parts))

\* p.resolve() in a process whose working directory is pcwd
Resolve(p, pcwd) ==
    LET full == PathJoin(Path(Pieces(pcwd)), p)
    IN [abs |-> TRUE, parts |-> Normalize(full.parts)]

\* s.strip()
RECURSIVE Strip(_)
Strip(s) ==
    IF s = <<>> THEN s
    ELSE IF s[1] = " " THEN Strip(Tail(s))
    ELSE IF Last(s) = " " THEN Strip(Front(s))
    ELSE s

\* s.startswith(prefix), for a prefix that is one piece
StartsWith(s, prefix) == s # <<>> /\ s[1] = prefix

\* s.removeprefix(prefix)
RemovePrefix(s, prefix) == IF StartsWith(s, prefix) THEN Tail(s) ELSE s

\* ConfigParser.resolve_cwd (parser.py 93-97)
resolve_cwd(cwd, file, pcwd) ==
    IF StartsWith(Strip(Pieces(cwd)), "$THIS_DIR")
    THEN Parent(PathJoin(file, Path(RemovePrefix(Pieces(cwd), "$THIS_DIR"))))
    ELSE Resolve(Path(Pieces(cwd)), pcwd)

------------------------------------------------------------------------------
(* ConfigParser._parse_command (parser.py 32-91) *)

\* what the function returns when no branch returns
NoneType == [kind |-> "NoneType"]

\* a message printed before exit(1)
ConfigError(text) == [kind |-> "ConfigError", text |-> text]

IsError(r) == r.kind = "ConfigError"

\* isinstance(r, Command)
IsInstanceCommand(r) == r.kind \notin {"CommandRegistry", "NoneType", "ConfigError"}

\* the first index of B, 0 when B is empty
FirstOf(B) == IF B = {} THEN 0 ELSE CHOOSE i \in B : \A j \in B : i <= j

\* a list branch that takes every parsed item, whatever it is
ListResult_AnyItem(subs) ==
    LET i == FirstOf({j \in 1..Len(subs) : IsError(subs[j])})
    IN IF i = 0 THEN ListCommands(subs) ELSE subs[i]

\* list branch (lines 37-45), given the parsed items: the first item that
\* exits, or is no Command, ends the parse
ListResult(subs) ==
    LET i == FirstOf({j \in 1..Len(subs) : ~IsInstanceCommand(subs[j])})
    IN IF i = 0 THEN ListCommands(subs)
       ELSE IF IsError(subs[i]) THEN subs[i]
       ELSE ConfigError("Expected a command in list")

\* a test that finds a throw key among any number of keys
IsThrowOnly_AnySize(d) == "throw" \in Keys(d)

\* "throw" in cmd_data and len(cmd_data) == 1
IsThrowOnly(d) == "throw" \in Keys(d) /\ Len(d.pairs) = 1

\* "desc" in cmd_data and len(cmd_data) == 1
IsDescOnly(d) == "desc" \in Keys(d) /\ Len(d.pairs) = 1

ObjKeys == {"desc", "ensure_env", "set_env", "throw", "cwd", "cmd"}

\* "cmd" branch (lines 57-78), given the parsed value of "cmd"
ObjResult(d, cmd, file, pcwd) ==
    IF IsError(cmd) THEN cmd
    ELSE IF Keys(d) \ ObjKeys # {}
    THEN ConfigError("Unexpected keys in command definition")
    ELSE LET desc == IF "desc" \in Keys(d) THEN PyValue(Get(d, "desc")) ELSE ""
             names == IF "ensure_env" \in Keys(d) THEN Get(d, "ensure_env").items ELSE <<>>
             pairs == IF "set_env" \in Keys(d) THEN Get(d, "set_env") ELSE Dict(<<>>)
             cwd == PopOpt(d, "cwd")
         IN [CommandObj(cmd,
                        IF cwd # None /\ Val(cwd) # ""
                        THEN Some(resolve_cwd(Val(cwd), file, pcwd)) ELSE None,
                        {names[i].s : i \in 1..Len(names)},
                        [k \in Keys(pairs) |-> Get(pairs, k).s],
                        PopOpt(d, "throw"))
               EXCEPT !.desc = desc]

\* registry branch (lines 80-91), given the parsed values: the first value
\* that exits, or a desc that is no SimpleCommand, ends the parse
RegResult(d, subs) ==
    LET bad == FirstOf({j \in 1..Len(subs) :
                         \/ IsError(subs[j])
                         \/ d.pairs[j][1] = "desc" /\ subs[j].kind # "SimpleCommand"})
    IN IF bad # 0
       THEN IF IsError(subs[bad]) THEN subs[bad]
            ELSE ConfigError("Expected a string 'desc'")
       ELSE CommandRegistry(
               IF "desc" \in Keys(d)
               THEN subs[CHOOSE i \in 1..Len(subs) : d.pairs[i][1] = "desc"].string
               ELSE "",
               [k \in Keys(d) \ {"desc"} |->
                   subs[CHOOSE i \in 1..Len(subs) : d.pairs[i][1] = k]])

RECURSIVE _parse_command(_, _, _)
_parse_command(d, file, pcwd) ==
    CASE d.t = "str" -> SimpleCommand(d.s)
      [] d.t = "list" ->
           ListResult([i \in 1..Len(d.items) |-> _parse_command(d.items[i], file, pcwd)])
      [] d.t = "dict" ->
           IF IsThrowOnly(d) THEN ThrowConfig(PyValue(Get(d, "throw")))
           ELSE IF IsDescOnly(d) THEN DescConfig(PyValue(Get(d, "desc")))
           ELSE IF "cmd" \in Keys(d)
           THEN ObjResult(d, _parse_command(Get(d, "cmd"), file, pcwd), file, pcwd)
           ELSE RegResult(d, [i \in 1..Len(d.pairs) |->
                                 _parse_command(d.pairs[i][2], file, pcwd)])
      [] OTHER -> NoneType

------------------------------------------------------------------------------
(* The documents parsed *)

L1 == Str("l1")
L2 == Str("l2")
Pair(k, v) == Dict(<< <<k, v>> >>)
Pair2(k, v, l, w) == Dict(<< <<k, v>>, <<l, w>> >>)

\* what a list is made of: strings, other scalars, throw and desc items, a
\* registry, a command object, a list, and a list that does not parse
ItemDocs ==
    {L1, L2, Bool(TRUE), Null,
     Pair("throw", Bool(TRUE)), Pair("throw", Bool(FALSE)),
     Pair("desc", Str("d1")), Pair("desc", Str("d2")),
     Pair("a", L1), Pair("cmd", L1),
     List(<<L1>>), List(<<Pair("a", L1)>>)}

ListDocs == {List(s) : s \in Tuples(ItemDocs, MaxElems)} \cup {List(<<>>)}

\* mappings with a throw key and another key
ThrowDocs ==
    UNION {{Pair2("throw", b, "desc", Str("d1")),
            Pair2("throw", b, "cmd", L1),
            Pair2("cmd", L2, "throw", b),
            Pair2("throw", b, "a", L1),
            Pair2("a", L1, "throw", b),
            Pair2("throw", b, "desc", List(<<L1>>)),
            Pair2("throw", b, "cwd", Str("sub")),
            Dict(<< <<"throw", b>>, <<"cmd", L1>>, <<"zzz", L1>> >>)}
           : b \in {Bool(TRUE), Bool(FALSE)}}

CwdStrings ==
    {"$THIS_DIR", "$THIS_DIR/sub", "$THIS_DIR/sub/bin", " $THIS_DIR/sub",
     "$THIS_DIR/sub ", "$THIS_DIR/../sub", "$THIS_DIRsub", "/opt/sub", "sub",
     "../sub", ""}

\* mappings with a cmd key
ObjDocs ==
    {Pair2("cmd", c, "cwd", Str(s)) : c \in {L1, List(<<L1, L2>>)}, s \in CwdStrings}
      \cup {Pair("cmd", Pair("a", L1)), Pair("cmd", Null),
            Pair("cmd", List(<<Pair("a", L1)>>)),
            Pair2("cmd", L1, "cwd", Null),
            Dict(<< <<"cmd", L1>>, <<"desc", Str("d1")>>,
                    <<"set_env", Pair("K", Str("v1"))>>,
                    <<"ensure_env", List(<<Str("K"), Str("M")>>)>> >>)}

\* other mappings
RegDocs ==
    {Pair2("a", L1, "desc", Str("d1")),
     Pair2("desc", Str("d1"), "a", List(<<L1, Pair("desc", Str("d2"))>>)),
     Pair2("a", L1, "desc", List(<<L1>>)),
     Pair2("a", List(<<Null>>), "desc", List(<<L1>>)),
     Pair("a", Pair("b", L1)),
     Pair2("a", Bool(TRUE), "b", L2),
     Dict(<<>>)}

Docs == ItemDocs \cup ListDocs \cup ThrowDocs \cup ObjDocs \cup RegDocs

\* ConfigParser(file_path): /etc/run.yml, and Path("run.yml") as main gives it
FilePaths == {Path(Pieces("/etc/run.yml")), Path(Pieces("run.yml"))}

------------------------------------------------------------------------------
(* Parsing one value *)

\* _parse_command returns
ParseReturn ==
    /\ phase = "parse" /\ parsed = None /\ exit_status = -1
    /\ LET r == _parse_command(document, file_path, proc_cwd)
       IN /\ ~IsError(r)
          /\ parsed' = Some(r)
    /\ UNCHANGED <<file_path, document, exit_status, printed>>
    /\ UNCHANGED <<argv, environ, proc_cwd, system_config, local_config, config,
                   ctx, stack, mode, phase, log, scope_exit, calls>>

\* _parse_command prints a message and calls exit(1)
ParseExit ==
    /\ phase = "parse" /\ parsed = None /\ exit_status = -1
    /\ LET r == _parse_command(document, file_path, proc_cwd)
       IN /\ IsError(r)
          /\ printed' = Message(r.text, "")
          /\ exit_status' = 1
    /\ UNCHANGED <<file_path, document, parsed>>
    /\ UNCHANGED <<argv, environ, proc_cwd, system_config, local_config, config,
                   ctx, stack, mode, phase, log, scope_exit, calls>>

NextParse == ParseReturn \/ ParseExit

\* a parser made for a configuration file and given one value, in a process
\* whose working directory is /d0
InitParse ==
    /\ file_path \in FilePaths
    /\ document \in Docs
    /\ parsed = None
    /\ proc_cwd = "/d0"
    /\ phase = "parse"
    /\ argv = <<>>
    /\ environ = EmptyMap
    /\ system_config = None
    /\ local_config = None
    /\ config = CommandRegistry("", EmptyMap)
    /\ ctx = [args |-> <<>>, throw |-> FALSE, cwd |-> None]
    /\ stack = <<>>
    /\ mode = "run"
    /\ exit_status = -1
    /\ printed = [text |-> "", name |-> "", after |-> 0]
    /\ log = <<>>
    /\ scope_exit = None
    /\ calls = <<>>

SpecParse == InitParse /\ [][NextParse]_vars

\* the parse is over
Parsed == phase = "parse" /\ (parsed # None \/ exit_status = 1)

------------------------------------------------------------------------------
(* Properties of the parser *)

\* the values _parse_command returns for the items of the list parsed
Items ==
    [i \in 1..Len(document.items) |->
        _parse_command(document.items[i], file_path, proc_cwd)]

\* C12: a mapping whose only key is throw is parsed to a ThrowConfig with the
\* value of the key; a mapping with a throw key and any other key is never
\* parsed to a ThrowConfig: with a cmd key it becomes a CommandObj, without
\* one a CommandRegistry, unless the parse exits.
C12_ThrowOnlyMapping ==
    (Parsed /\ document.t = "dict" /\ "throw" \in Keys(document))
       => IF Len(document.pairs) = 1
          THEN /\ parsed # None
               /\ Val(parsed) = ThrowConfig(Get(document, "throw").b)
          ELSE parsed # None
                  => /\ Val(parsed).kind # "ThrowConfig"
                     /\ Val(parsed).kind = IF "cmd" \in Keys(document)
                                           THEN "CommandObj" ELSE "CommandRegistry"

\* {throw: true} has become ThrowConfig(True)
C12_Witness ==
    /\ Parsed /\ document = Pair("throw", Bool(TRUE))
    /\ parsed = Some(ThrowConfig(TRUE))

\* {throw: true, a: l1} has become a registry, {throw: .., cmd: l1} a command
\* object with that throw
C12_WitnessOtherKey ==
    /\ Parsed /\ document.t = "dict" /\ Len(document.pairs) = 2
    /\ "throw" \in Keys(document) /\ "cmd" \in Keys(document)
    /\ parsed # None /\ Val(parsed).throw = Some(Get(document, "throw").b)

\* C13 as stated: a list removes a DescConfig only when it is the first item,
\* whose desc becomes the description of the list; a DescConfig further on
\* stays where it is and the description stays empty.
C13_RemovesLeadingDescOnly ==
    (Parsed /\ document.t = "list" /\ parsed # None)
       => IF Items # <<>> /\ IsDescConfig(Items[1])
          THEN /\ Val(parsed).desc = Items[1].desc
               /\ Val(parsed).commands = Tail(Items)
          ELSE /\ Val(parsed).desc = ""
               /\ Val(parsed).commands = Items

\* C13: a list removes at most one DescConfig, the first of its items that is
\* one, at whatever index: its desc becomes the description of the list, and
\* the other items, DescConfig among them, stay in their order; a list
\* without a DescConfig keeps its items and an empty description.
C13_RemovesFirstDesc ==
    (Parsed /\ document.t = "list" /\ parsed # None)
       => LET D == {i \in 1..Len(Items) : IsDescConfig(Items[i])}
              commands == Val(parsed).commands
          IN IF D = {}
             THEN Val(parsed).desc = "" /\ commands = Items
             ELSE \E i \in D :
                     /\ \A j \in D : i <= j
                     /\ Val(parsed).desc = Items[i].desc
                     /\ Len(commands) = Len(Items) - 1
                     /\ \A j \in 1..Len(commands) :
                           commands[j] = Items[IF j < i THEN j ELSE j + 1]

\* [l1, {desc: d1}, {desc: d2}] has become a list described by d1 with the
\* commands l1 and DescConfig(d2)
C13_Witness ==
    /\ Parsed /\ document.t = "list" /\ parsed # None
    /\ Len(Items) = 3
    /\ ~IsDescConfig(Items[1]) /\ IsDescConfig(Items[2]) /\ IsDescConfig(Items[3])
    /\ Items[2].desc # Items[3].desc
    /\ Val(parsed).desc = Items[2].desc
    /\ Val(parsed).commands = <<Items[1], Items[3]>>

\* C14: for a cwd string that, trimmed, begins with $THIS_DIR, resolve_cwd
\* gives the directory of the configuration file followed by what comes
\* after $THIS_DIR: /etc/sub for $THIS_DIR/sub and /etc/run.yml.
C14_ThisDirIsConfigDir ==
    (/\ Parsed /\ parsed # None /\ document.t = "dict"
     /\ "cmd" \in Keys(document) /\ "cwd" \in Keys(document)
     /\ Get(document, "cwd").t = "str"
     /\ StartsWith(Strip(Pieces(Get(document, "cwd").s)), "$THIS_DIR"))
       => Val(parsed).cwd =
             Some([abs |-> file_path.abs,
                   parts |-> Parent(file_path).parts
                               \o Split(Tail(Strip(Pieces(Get(document, "cwd").s))))])

\* C15: the parse of a list exits with a message as soon as an item is not
\* parsed to a Command (a registry, nothing, or an item that exits itself);
\* a list that is parsed is a ListCommands of Commands only, none of them a
\* registry.
C15_ListOfCommandsOnly ==
    (Parsed /\ document.t = "list")
       => /\ (\E i \in 1..Len(Items) : ~IsInstanceCommand(Items[i]))
                => /\ parsed = None /\ exit_status = 1
                   /\ printed.text \in {"Expected a command in list",
                                        "Unexpected keys in command definition",
                                        "Expected a string 'desc'"}
          /\ parsed # None
                => /\ Val(parsed).kind = "ListCommands"
                   /\ \A j \in 1..Len(Val(parsed).commands) :
                         /\ IsInstanceCommand(Val(parsed).commands[j])
                         /\ ~IsCommandRegistry(Val(parsed).commands[j])

\* a list with l1 and then a registry has ended the parse with the message
C15_Witness ==
    /\ Parsed /\ document.t = "list" /\ Len(Items) >= 2
    /\ Items[1].kind = "SimpleCommand" /\ IsCommandRegistry(Items[2])
    /\ parsed = None /\ exit_status = 1
    /\ printed.text = "Expected a command in list"

\* a list of three commands has been parsed
C15_WitnessParsed ==
    /\ Parsed /\ document.t = "list" /\ parsed # None
    /\ Len(Val(parsed).commands) = 3
    /\ \E j \in 1..3 : Val(parsed).commands[j].kind = "CommandObj"

====
